---- MODULE Spec2Model ----
(***************************************************************************)
(* react-tip-magic: the tooltip reducer (context/TipMagicContext), the     *)
(* event delegation engine (components/TipMagicProvider.tsx), the          *)
(* programmatic API (hooks/useTipMagic) and the attribute parser           *)
(* (utils/parseDataAttributes).                                            *)
(*                                                                         *)
(* Time is counted in ticks of 100 ms: a delay of 200 ms is 2.             *)
(* A JavaScript `undefined`/`null` in an optional position is the empty    *)
(* sequence, a present value v is <<v>>.  Attribute text is a sequence of  *)
(* one-character strings.  Element references are strings, the null       *)
(* reference is NoElem.  A timer handle is a positive integer, 0 is null.  *)
(***************************************************************************)
EXTENDS Integers, Sequences, FiniteSets, TLC

\* ------------------------------------------------------------------ bounds
\* Most hide timers that may be pending at once (handleFocusOut can leak them).
MaxHideTimers == 2
\* Most actions that may wait in React's update queue for the next render.
MaxQueued == 2

\* ------------------------------------------------------------------ values
Undefined == <<>>
Some(v) == <<v>>
Val(o) == o[1]
\* JavaScript's `a ?? b`
Coalesce(o, d) == IF o = Undefined THEN d ELSE Val(o)
Max(a, b) == IF a >= b THEN a ELSE b

NoElem == "null"
Targets == {"A", "B", "C"}
TooltipEl == "tooltip"
HelperEl == "helper"
BodyEl == "body"
Elements == Targets \cup {TooltipEl, HelperEl, BodyEl}

\* Elements carrying data-tip whose tooltip the engine must refuse: D is
\* disabled (data-tip-disabled), E has an empty data-tip.
Invalid == {"D", "E"}

\* An element without any data-* attribute.
NoAttrs ==
  [tip |-> Undefined, tipId |-> Undefined, tipPlacement |-> Undefined,
   tipDelay |-> Undefined, tipHideDelay |-> Undefined, tipDisabled |-> Undefined,
   tipEllipsis |-> Undefined, tipMaxLines |-> Undefined, tipWordWrap |-> Undefined,
   tipMaxWidth |-> Undefined, tipHtml |-> Undefined, tipInteractive |-> Undefined,
   tipTextBreak |-> Undefined, tipMove |-> Undefined, tipJump |-> Undefined,
   tipMoveDuration |-> Undefined, tipNoArrow |-> Undefined, tipGroup |-> Undefined]

\* The data-* attributes of the elements that carry data-tip.
dataset ==
  [A |-> [NoAttrs EXCEPT !.tip = Some("a"), !.tipDelay = Some(<<"1">>),
                         !.tipMove = Some(""), !.tipGroup = Some("g1")],
   B |-> [NoAttrs EXCEPT !.tip = Some("b"), !.tipGroup = Some("g2")],
   C |-> [NoAttrs EXCEPT !.tip = Some("c"), !.tipDelay = Some(<<"0">>),
                         !.tipHideDelay = Some(<<"2">>), !.tipJump = Some("")],
   D |-> [NoAttrs EXCEPT !.tip = Some("d"), !.tipDisabled = Some("")],
   E |-> [NoAttrs EXCEPT !.tip = Some(""), !.tipDelay = Some(<<"0">>)]]

\* One more element, Probe, whose attributes are whatever the page author
\* wrote: its dataset is the variable attrs.
VARIABLE attrs
Probe == "P"
datasetOf(element) == IF element = Probe THEN attrs ELSE dataset[element]

DEFAULT_SHOW_DELAY == 2
DEFAULT_HIDE_DELAY == 7
DEFAULT_OPTIONS == [showDelay |-> DEFAULT_SHOW_DELAY, hideDelay |-> DEFAULT_HIDE_DELAY,
                    placement |-> "top", disabled |-> FALSE,
                    transitionBehavior |-> "move"]
\* The options prop handed to TipMagicProvider; it is read once, at mount.
VARIABLE options
\* { hideDelay: 100 }, { hideDelay: 100, disabled: true } and
\* { showDelay: 300, hideDelay: 100, placement: 'bottom', transitionBehavior: 'jump' }
providerOptions == [hideDelay |-> 1]
disabledOptions == [hideDelay |-> 1, disabled |-> TRUE]
jumpOptions == [showDelay |-> 3, hideDelay |-> 1, placement |-> "bottom",
                transitionBehavior |-> "jump"]
\* createInitialState: { ...DEFAULT_OPTIONS, ...options }
config == [k \in DOMAIN DEFAULT_OPTIONS |->
             IF k \in DOMAIN options THEN options[k] ELSE DEFAULT_OPTIONS[k]]

\* --------------------------------------------------------- attribute parser
Digits == <<"0", "1", "2", "3", "4", "5", "6", "7", "8", "9">>
IsDigit(c) == \E i \in 1..10 : Digits[i] = c
DigitVal(c) == (CHOOSE i \in 1..10 : Digits[i] = c) - 1

RECURSIVE SkipWhitespace(_)
SkipWhitespace(s) ==
  IF Len(s) > 0 /\ s[1] = " " THEN SkipWhitespace(Tail(s)) ELSE s

RECURSIVE DigitPrefixLen(_)
DigitPrefixLen(s) ==
  IF Len(s) > 0 /\ IsDigit(s[1]) THEN 1 + DigitPrefixLen(Tail(s)) ELSE 0

RECURSIVE DigitsValue(_, _)
DigitsValue(s, n) ==
  IF n = 0 THEN 0 ELSE 10 * DigitsValue(s, n - 1) + DigitVal(s[n])

\* parseInt(text, 10): leading blanks, an optional sign, then the longest run
\* of digits; NaN (Undefined here) when there is no digit.
parseInt(text) ==
  LET t == SkipWhitespace(text)
      signed == Len(t) > 0 /\ t[1] \in {"-", "+"}
      u == IF signed THEN Tail(t) ELSE t
      n == DigitPrefixLen(u)
      v == DigitsValue(u, n)
  IN IF n = 0 THEN Undefined
     ELSE Some(IF signed /\ t[1] = "-" THEN 0 - v ELSE v)

parseIntWithDefault(value, defaultValue) ==
  IF value = Undefined THEN defaultValue
  ELSE Coalesce(parseInt(Val(value)), defaultValue)

\* parseOptionalInt that reads a text without a number as 0.
parseOptionalInt_zeroWhenNaN(value) ==
  IF value = Undefined THEN Undefined ELSE Some(Coalesce(parseInt(Val(value)), 0))

parseOptionalInt(value) ==
  IF value = Undefined THEN Undefined ELSE parseInt(Val(value))

\* parseBooleanAttribute that goes by the truth of the text: "" and "false"
\* count as not set.
parseBooleanAttribute_byText(value) ==
  value # Undefined /\ Val(value) \notin {"", "false"}

parseBooleanAttribute(value) == value # Undefined

\* parseTransitionBehavior with data-tip-jump taking precedence.
parseTransitionBehavior_jumpFirst(ds) ==
  IF ds.tipJump # Undefined THEN Some("jump")
  ELSE IF ds.tipMove # Undefined THEN Some("move")
  ELSE Undefined

parseTransitionBehavior(ds) ==
  IF ds.tipMove # Undefined THEN Some("move")
  ELSE IF ds.tipJump # Undefined THEN Some("jump")
  ELSE Undefined

VALID_PLACEMENTS ==
  {"top", "top-start", "top-end", "bottom", "bottom-start", "bottom-end",
   "left", "left-start", "left-end", "right", "right-start", "right-end"}

\* `value && VALID_PLACEMENTS.includes(value)`: the empty string is falsy.
parsePlacement(value) ==
  IF value # Undefined /\ Val(value) # "" /\ Val(value) \in VALID_PLACEMENTS
    THEN Val(value)
    ELSE DEFAULT_OPTIONS.placement

VALID_TEXT_BREAKS == {"normal", "break-all", "keep-all"}

parseTextBreak(value) ==
  IF value # Undefined /\ Val(value) # "" /\ Val(value) \in VALID_TEXT_BREAKS
    THEN Val(value)
    ELSE "normal"

parseDataAttributes(element) ==
  LET ds == datasetOf(element)
  IN [content  |-> Coalesce(ds.tip, ""),
      id       |-> ds.tipId,
      placement |-> parsePlacement(ds.tipPlacement),
      delay    |-> parseIntWithDefault(ds.tipDelay, DEFAULT_OPTIONS.showDelay),
      hideDelay |-> parseOptionalInt(ds.tipHideDelay),
      disabled |-> parseBooleanAttribute(ds.tipDisabled),
      ellipsis |-> parseBooleanAttribute(ds.tipEllipsis),
      maxLines |-> parseIntWithDefault(ds.tipMaxLines, 1),
      wordWrap |-> parseBooleanAttribute(ds.tipWordWrap),
      textBreak |-> parseTextBreak(ds.tipTextBreak),
      maxWidth |-> parseIntWithDefault(ds.tipMaxWidth, 300),
      html     |-> parseBooleanAttribute(ds.tipHtml),
      interactive |-> parseBooleanAttribute(ds.tipInteractive),
      transitionBehavior |-> parseTransitionBehavior(ds),
      moveTransitionDuration |-> parseOptionalInt(ds.tipMoveDuration),
      showArrow |-> ~parseBooleanAttribute(ds.tipNoArrow)]

\* ---------------------------------------------------------------- getTipProps
\* An options object with nothing but the required tip.
NoOptions ==
  [tip |-> "a", id |-> Undefined, placement |-> Undefined, showDelay |-> Undefined,
   hideDelay |-> Undefined, disabled |-> Undefined, ellipsis |-> Undefined,
   maxLines |-> Undefined, wordWrap |-> Undefined, textBreak |-> Undefined,
   maxWidth |-> Undefined, html |-> Undefined, interactive |-> Undefined,
   transitionBehavior |-> Undefined, moveTransitionDuration |-> Undefined,
   showArrow |-> Undefined]

RECURSIVE NatToText(_)
NatToText(n) ==
  IF n < 10 THEN <<Digits[n + 1]>>
  ELSE Append(NatToText(n \div 10), Digits[(n % 10) + 1])

\* String(n) that drops the sign.
String_unsigned(n) == IF n < 0 THEN NatToText(0 - n) ELSE NatToText(n)

\* String(n) of an integer: decimal digits, "-" in front of a negative one.
String(n) == IF n < 0 THEN <<"-">> \o NatToText(0 - n) ELSE NatToText(n)

\* `if (options.x !== undefined) result[...] = String(options.x)`
stringIfDefined(value) ==
  IF value # Undefined THEN Some(String(Val(value))) ELSE Undefined

\* `if (options.x) result[...] = ''`
emptyIfTrue(value) == IF value = Some(TRUE) THEN Some("") ELSE Undefined

\* getTipProps(options); the result is named by the dataset keys its
\* data-tip-* attributes have once spread onto an element.
getTipProps(o) ==
  [NoAttrs EXCEPT
     !.tip = Some(o.tip),
     !.tipId = o.id,
     !.tipPlacement = o.placement,
     !.tipDelay = stringIfDefined(o.showDelay),
     !.tipHideDelay = stringIfDefined(o.hideDelay),
     !.tipDisabled = emptyIfTrue(o.disabled),
     !.tipEllipsis = emptyIfTrue(o.ellipsis),
     !.tipMaxLines = stringIfDefined(o.maxLines),
     !.tipWordWrap = emptyIfTrue(o.wordWrap),
     !.tipTextBreak = IF o.textBreak # Undefined /\ Val(o.textBreak) # "normal"
                        THEN o.textBreak ELSE Undefined,
     !.tipMaxWidth = stringIfDefined(o.maxWidth),
     !.tipHtml = emptyIfTrue(o.html),
     !.tipInteractive = emptyIfTrue(o.interactive),
     !.tipMove = IF o.transitionBehavior = Some("move") THEN Some("") ELSE Undefined,
     !.tipJump = IF o.transitionBehavior = Some("jump") THEN Some("") ELSE Undefined,
     !.tipMoveDuration = stringIfDefined(o.moveTransitionDuration),
     !.tipNoArrow = IF o.showArrow = Some(FALSE) THEN Some("") ELSE Undefined]

\* ------------------------------------------------------------------ reducer
initialTooltipState ==
  [visible |-> FALSE, content |-> "", target |-> NoElem,
   isTransitioning |-> FALSE, parsedData |-> Undefined]

NoAction == [type |-> "NONE"]
ShowAction(target, content, parsedData) ==
  [type |-> "SHOW_TOOLTIP", target |-> target, content |-> content, parsedData |-> parsedData]
MoveAction(target, content, parsedData) ==
  [type |-> "MOVE_TOOLTIP", target |-> target, content |-> content, parsedData |-> parsedData]
HideAction == [type |-> "HIDE_TOOLTIP"]
UpdateContentAction(content) == [type |-> "UPDATE_TOOLTIP_CONTENT", content |-> content]
SetTransitioningAction(b) == [type |-> "SET_TOOLTIP_TRANSITIONING", value |-> b]

\* tipMagicReducer whose HIDE_TOOLTIP case only clears the visible flag.
tipMagicReducer_hideKeepsFields(state, action) ==
  CASE action.type = "SHOW_TOOLTIP" ->
         [state EXCEPT !.visible = TRUE, !.target = action.target,
                       !.content = action.content,
                       !.parsedData = Some(action.parsedData),
                       !.isTransitioning = FALSE]
    [] action.type = "HIDE_TOOLTIP" -> [state EXCEPT !.visible = FALSE]
    [] action.type = "MOVE_TOOLTIP" ->
         [state EXCEPT !.target = action.target,
                       !.content = action.content,
                       !.parsedData = Some(action.parsedData),
                       !.isTransitioning = TRUE]
    [] action.type = "UPDATE_TOOLTIP_CONTENT" -> [state EXCEPT !.content = action.content]
    [] action.type = "SET_TOOLTIP_TRANSITIONING" ->
         [state EXCEPT !.isTransitioning = action.value]
    [] OTHER -> state

tipMagicReducer(state, action) ==
  CASE action.type = "SHOW_TOOLTIP" ->
         [state EXCEPT !.visible = TRUE, !.target = action.target,
                       !.content = action.content,
                       !.parsedData = Some(action.parsedData),
                       !.isTransitioning = FALSE]
    [] action.type = "HIDE_TOOLTIP" -> initialTooltipState
    [] action.type = "MOVE_TOOLTIP" ->
         [state EXCEPT !.target = action.target,
                       !.content = action.content,
                       !.parsedData = Some(action.parsedData),
                       !.isTransitioning = TRUE]
    [] action.type = "UPDATE_TOOLTIP_CONTENT" -> [state EXCEPT !.content = action.content]
    [] action.type = "SET_TOOLTIP_TRANSITIONING" ->
         [state EXCEPT !.isTransitioning = action.value]
    [] OTHER -> state

\* The flow slice of the same reducer.  A flow step is known by its id.
initialFlowState == [active |-> FALSE, steps |-> <<>>, currentIndex |-> -1]

Min(a, b) == IF a <= b THEN a ELSE b

StartFlowAction(steps) == [type |-> "START_FLOW", payload |-> steps]
NextFlowStepAction == [type |-> "NEXT_FLOW_STEP"]
PrevFlowStepAction == [type |-> "PREV_FLOW_STEP"]
EndFlowAction == [type |-> "END_FLOW"]

flowReducer(state, action) ==
  CASE action.type = "START_FLOW" ->
         [active |-> TRUE, steps |-> action.payload, currentIndex |-> 0]
    [] action.type = "NEXT_FLOW_STEP" ->
         [state EXCEPT !.currentIndex =
            Min(state.currentIndex + 1, Len(state.steps) - 1)]
    [] action.type = "PREV_FLOW_STEP" ->
         [state EXCEPT !.currentIndex = Max(state.currentIndex - 1, 0)]
    [] action.type = "END_FLOW" -> initialFlowState
    [] OTHER -> state

\* -------------------------------------------------------------------- state
VARIABLES
  tooltip,           \* state.tooltip of the reducer, every dispatched action applied
  rendered,          \* state.tooltip as the last render of the components saw it
  showTimeoutRef,    \* handle of the last show timer armed, 0 for null
  hideTimeoutRef,    \* handle of the last hide timer armed, 0 for null
  currentTargetRef,  \* element the engine engaged last, NoElem for null
  timers,            \* the pending setTimeout callbacks of the page
  mounted,           \* the effect of TipMagicEventHandler is subscribed
  pointer,           \* element under the mouse pointer, NoElem outside the page
  focus,             \* target that has keyboard focus, NoElem for any other element
  queued,            \* number of dispatched actions the last render has not seen
  parsed,            \* what parseDataAttributes returned for Probe, Undefined before
  flow,              \* state.flow of the reducer
  tipOptions         \* the options object handed to getTipProps

vars == <<tooltip, rendered, showTimeoutRef, hideTimeoutRef, currentTargetRef,
          timers, mounted, pointer, focus, queued, options, attrs, parsed, flow, tipOptions>>

\* Refs refreshed on every render of TipMagicEventHandler.
isVisibleRef == rendered.visible
parsedDataRef == rendered.parsedData

\* The tooltip surface is in the document when the last render drew it.
TooltipRendered == rendered.visible /\ rendered.content # ""

\* element.closest('[data-tip]') and element.closest('.tip-magic-tooltip'):
\* every element of the page is its own nearest match or has none.
closestTarget(e) == IF e \in Targets \cup Invalid THEN e ELSE NoElem
closestTooltip(e) == e = TooltipEl
closestHelper(e) == e = HelperEl

\* ------------------------------------------------------------------- timers
TimerIds(ts) == {t.id : t \in ts}
ShowTimers(ts) == {t \in ts : t.kind \in {"show", "showMove"}}
HideTimers(ts) == {t \in ts : t.kind = "hide"}

\* Browsers never hand out a handle twice; the least handle that no pending
\* timer and no ref holds is as good as a new one.
FreshId(ts, used) ==
  CHOOSE i \in 1..(Cardinality(ts) + Cardinality(used) + 1) :
    /\ i \notin TimerIds(ts) \cup used
    /\ \A j \in 1..(i - 1) : j \in TimerIds(ts) \cup used

\* setTimeout(callback, ms): a negative delay is clamped to 0.
setTimeout(ts, id, kind, target, ms) ==
  ts \cup {[id |-> id, kind |-> kind, target |-> target, left |-> Max(0, ms)]}

\* clearTimeout(handle): no effect for a handle that is not pending.
clearTimeout(ts, id) == {t \in ts : t.id # id}

\* ------------------------------------------------------------------- engine
\* The outcome of a handler: the action it dispatches and the refs and timers
\* it leaves behind.
Outcome(act, ts, sref, href, cur) ==
  [act |-> act, timers |-> ts, showRef |-> sref, hideRef |-> href, cur |-> cur]

NoOutcome == Outcome(NoAction, timers, showTimeoutRef, hideTimeoutRef, currentTargetRef)

\* clearTimeouts(): both refs, each only when set.
clearTimeouts(o) ==
  LET ts1 == IF o.showRef # 0 THEN clearTimeout(o.timers, o.showRef) ELSE o.timers
      ts2 == IF o.hideRef # 0 THEN clearTimeout(ts1, o.hideRef) ELSE ts1
  IN [o EXCEPT !.timers = ts2, !.showRef = 0, !.hideRef = 0]

\* showTooltip(target), run on the refs and timers of outcome o.
showTooltip(o, target) ==
  LET parsedData == parseDataAttributes(target)
      content == parsedData.content
      isCurrentlyVisible == isVisibleRef
  IN IF parsedData.disabled \/ config.disabled THEN o
     ELSE IF content = "" THEN o
     ELSE [o EXCEPT
             !.act = IF isCurrentlyVisible /\ o.cur # target
                       THEN MoveAction(target, content, parsedData)
                     ELSE IF ~isCurrentlyVisible
                       THEN ShowAction(target, content, parsedData)
                     ELSE NoAction,
             !.cur = target]

\* hideTooltip()
hideTooltip(o) == [o EXCEPT !.act = HideAction, !.cur = NoElem]

\* if (hideTimeoutRef.current) { clearTimeout(...); hideTimeoutRef.current = null }
clearHideTimeout(o) ==
  IF o.hideRef # 0
    THEN [o EXCEPT !.timers = clearTimeout(o.timers, o.hideRef), !.hideRef = 0]
    ELSE o

\* handleMouseOver with the hide timer cancelled as soon as a delayed target is
\* entered while the tooltip is visible, instead of leaving it in the race.
handleMouseOver_cancelsHideOnEnter(o0, eventTarget) ==
  LET target == closestTarget(eventTarget)
      isOverTooltip == closestTooltip(eventTarget)
  IN IF target # NoElem /\ target # o0.cur THEN
       LET o1 == IF o0.showRef # 0
                   THEN [o0 EXCEPT !.timers = clearTimeout(o0.timers, o0.showRef)]
                   ELSE o0
           parsedData == parseDataAttributes(target)
           delay == parsedData.delay
           o2 == clearHideTimeout(o1)
           id == FreshId(o1.timers, {o1.showRef, o1.hideRef})
       IN IF isVisibleRef THEN
            IF delay = 0 THEN showTooltip(o2, target)
            ELSE [o2 EXCEPT !.timers = setTimeout(o2.timers, id, "showMove", target, delay),
                            !.showRef = id]
          ELSE
            IF delay = 0 THEN showTooltip(o1, target)
            ELSE [o1 EXCEPT !.timers = setTimeout(o1.timers, id, "show", target, delay),
                            !.showRef = id]
     ELSE IF isOverTooltip THEN clearHideTimeout(o0)
     ELSE o0

handleMouseOver(o0, eventTarget) ==
  LET target == closestTarget(eventTarget)
      isOverTooltip == closestTooltip(eventTarget)
  IN IF target # NoElem /\ target # o0.cur THEN
       LET o1 == IF o0.showRef # 0
                   THEN [o0 EXCEPT !.timers = clearTimeout(o0.timers, o0.showRef)]
                   ELSE o0
           parsedData == parseDataAttributes(target)
           \* `parsedData.delay ?? config.showDelay`: delay is always a number
           delay == parsedData.delay
           id == FreshId(o1.timers, {o1.showRef, o1.hideRef})
       IN IF isVisibleRef THEN
            IF delay = 0 THEN showTooltip(clearHideTimeout(o1), target)
            ELSE [o1 EXCEPT !.timers = setTimeout(o1.timers, id, "showMove", target, delay),
                            !.showRef = id]
          ELSE
            IF delay = 0 THEN showTooltip(o1, target)
            ELSE [o1 EXCEPT !.timers = setTimeout(o1.timers, id, "show", target, delay),
                            !.showRef = id]
     ELSE IF isOverTooltip THEN clearHideTimeout(o0)
     ELSE o0

\* parsedDataRef.current?.hideDelay ?? config.hideDelay
resolveHideDelay ==
  IF parsedDataRef = Undefined THEN config.hideDelay
  ELSE Coalesce(Val(parsedDataRef).hideDelay, config.hideDelay)

\* handleMouseOut without the early return for a related target that is
\* another data-tip element.
handleMouseOut_noTargetGuard(o0, eventTarget, relatedTarget) ==
  LET isLeavingTooltip == closestTooltip(eventTarget)
      isLeavingTarget == closestTarget(eventTarget) # NoElem
  IN IF relatedTarget # NoElem /\ closestTooltip(relatedTarget) THEN o0
     ELSE IF relatedTarget # NoElem /\ closestHelper(relatedTarget) THEN o0
     ELSE IF isLeavingTooltip /\ relatedTarget = o0.cur THEN o0
     ELSE
       LET o1 == IF o0.showRef # 0
                   THEN [o0 EXCEPT !.timers = clearTimeout(o0.timers, o0.showRef),
                                   !.showRef = 0]
                   ELSE o0
       IN IF isVisibleRef /\ (isLeavingTarget \/ isLeavingTooltip) THEN
            LET hideDelay == resolveHideDelay
                ts == IF o1.hideRef # 0 THEN clearTimeout(o1.timers, o1.hideRef)
                      ELSE o1.timers
                id == FreshId(ts, {o1.showRef, o1.hideRef})
            IN [o1 EXCEPT !.timers = setTimeout(ts, id, "hide", NoElem, hideDelay),
                          !.hideRef = id]
          ELSE o1

handleMouseOut(o0, eventTarget, relatedTarget) ==
  LET isLeavingTooltip == closestTooltip(eventTarget)
      isLeavingTarget == closestTarget(eventTarget) # NoElem
  IN IF relatedTarget # NoElem /\ closestTooltip(relatedTarget) THEN o0
     ELSE IF relatedTarget # NoElem /\ closestHelper(relatedTarget) THEN o0
     ELSE IF relatedTarget # NoElem /\ closestTarget(relatedTarget) # NoElem THEN o0
     ELSE IF isLeavingTooltip /\ relatedTarget = o0.cur THEN o0
     ELSE
       LET o1 == IF o0.showRef # 0
                   THEN [o0 EXCEPT !.timers = clearTimeout(o0.timers, o0.showRef),
                                   !.showRef = 0]
                   ELSE o0
       IN IF isVisibleRef /\ (isLeavingTarget \/ isLeavingTooltip) THEN
            LET hideDelay == resolveHideDelay
                ts == IF o1.hideRef # 0 THEN clearTimeout(o1.timers, o1.hideRef)
                      ELSE o1.timers
                id == FreshId(ts, {o1.showRef, o1.hideRef})
            IN [o1 EXCEPT !.timers = setTimeout(ts, id, "hide", NoElem, hideDelay),
                          !.hideRef = id]
          ELSE o1

handleFocusIn(o0, eventTarget) ==
  LET target == closestTarget(eventTarget)
  IN IF target # NoElem THEN showTooltip(o0, target) ELSE o0

handleFocusOut(o0, eventTarget, relatedTarget) ==
  LET target == closestTarget(eventTarget)
  IN IF relatedTarget # NoElem /\ closestTarget(relatedTarget) # NoElem THEN o0
     ELSE IF target # NoElem THEN
       LET hideDelay == resolveHideDelay
           id == FreshId(o0.timers, {o0.showRef, o0.hideRef})
       IN [o0 EXCEPT !.timers = setTimeout(o0.timers, id, "hide", NoElem, hideDelay),
                     !.hideRef = id]
     ELSE o0

handleKeyDown(o0, key) ==
  IF key = "Escape" /\ isVisibleRef THEN hideTooltip(clearTimeouts(o0)) ELSE o0

\* The callbacks handed to setTimeout, run when timer t is taken off the list.
Fired(t) == [NoOutcome EXCEPT !.timers = timers \ {t}]
showTimerCallback(t) == showTooltip(Fired(t), t.target)
showMoveTimerCallback(t) == showTooltip(clearHideTimeout(Fired(t)), t.target)
\* The hide timer's callback forgetting the target without dispatching HIDE_TOOLTIP.
hideTimerCallback_forgetsOnly(t) == [Fired(t) EXCEPT !.cur = NoElem]

hideTimerCallback(t) == hideTooltip(Fired(t))

\* --------------------------------------------------------- programmatic API
\* The second argument of tooltip.show(): nothing or a content string.
NoArg == [kind |-> "none"]
ShowArgs == {NoArg}
UpdateContents == {"y"}

\* useTipMagic().tooltip.show(target, contentOrOptions); element is what the
\* selector resolved to.  The callback closes over state.tooltip of the last render.
\* tooltipShow that takes a target it cannot resolve as a request to hide.
tooltipShow_unresolvedHides(element, contentOrOptions) ==
  IF element = NoElem THEN HideAction
  ELSE
    LET parsedData == parseDataAttributes(element)
        tooltipContent == IF contentOrOptions.kind = "string"
                            THEN contentOrOptions.content
                            ELSE parsedData.content
        mergedData == [parsedData EXCEPT !.content = tooltipContent]
    IN IF tooltipContent = "" THEN NoAction
       ELSE IF rendered.visible THEN
              IF rendered.target = element
                THEN ShowAction(element, tooltipContent, mergedData)
                ELSE MoveAction(element, tooltipContent, mergedData)
       ELSE ShowAction(element, tooltipContent, mergedData)

tooltipShow(element, contentOrOptions) ==
  IF element = NoElem THEN NoAction
  ELSE
    LET parsedData == parseDataAttributes(element)
        tooltipContent == IF contentOrOptions.kind = "string"
                            THEN contentOrOptions.content
                            ELSE parsedData.content
        mergedData == [parsedData EXCEPT !.content = tooltipContent]
    IN IF tooltipContent = "" THEN NoAction
       ELSE IF rendered.visible THEN
              IF rendered.target = element
                THEN ShowAction(element, tooltipContent, mergedData)
                ELSE MoveAction(element, tooltipContent, mergedData)
       ELSE ShowAction(element, tooltipContent, mergedData)

tooltipHide == HideAction
tooltipUpdateContent(content) == UpdateContentAction(content)

\* Tooltip component: transitionBehavior and shouldAnimatePosition of the last
\* render; hasBeenPositioned is reported by the positioning library.
\* transitionBehavior with the provider's default taking precedence over the
\* descriptor's override.
transitionBehavior_providerFirst == config.transitionBehavior

transitionBehavior ==
  IF rendered.parsedData = Undefined THEN config.transitionBehavior
  ELSE Coalesce(Val(rendered.parsedData).transitionBehavior, config.transitionBehavior)

\* `tooltip.parsedData?.placement ?? config.placement`: the descriptor's
\* placement is always a string.
placement ==
  IF rendered.parsedData = Undefined THEN config.placement
  ELSE Val(rendered.parsedData).placement

\* obj.name for a property the object may not have
Prop(obj, name) == IF name \in DOMAIN obj THEN obj[name] ELSE Undefined

currentGroup ==
  IF rendered.parsedData = Undefined THEN Undefined
  ELSE Prop(Val(rendered.parsedData), "group")

previousGroup == Prop(rendered, "previousGroup")

areGroupsCompatible ==
  \/ (currentGroup = Undefined /\ previousGroup = Undefined)
  \/ currentGroup = previousGroup
  \/ (currentGroup = Undefined /\ previousGroup # Undefined)
  \/ (currentGroup # Undefined /\ previousGroup = Undefined)

\* shouldAnimatePosition that does not look at the transition behavior.
shouldAnimatePosition_ignoresBehavior(hasBeenPositioned) ==
  /\ hasBeenPositioned
  /\ rendered.isTransitioning
  /\ areGroupsCompatible

shouldAnimatePosition(hasBeenPositioned) ==
  /\ hasBeenPositioned
  /\ rendered.isTransitioning
  /\ transitionBehavior = "move"
  /\ areGroupsCompatible

handleTransitionEnd(propertyName, hasBeenPositioned) ==
  IF ~rendered.isTransitioning THEN NoAction
  ELSE IF propertyName = "transform"
          \/ (propertyName = "opacity" /\ ~shouldAnimatePosition(hasBeenPositioned))
    THEN SetTransitioningAction(FALSE)
    ELSE NoAction

\* ------------------------------------------------------------------ actions
Init ==
  /\ tooltip = initialTooltipState
  /\ rendered = initialTooltipState
  /\ showTimeoutRef = 0
  /\ hideTimeoutRef = 0
  /\ currentTargetRef = NoElem
  /\ timers = {}
  /\ mounted = TRUE
  /\ pointer = NoElem
  /\ focus = NoElem
  /\ queued = 0
  /\ options = providerOptions
  /\ attrs = NoAttrs
  /\ parsed = Undefined
  /\ flow = initialFlowState
  /\ tipOptions = NoOptions

\* dispatch(action): the reducer runs on the queued state; the components see
\* the result at their next render.
Dispatch(action) ==
  /\ tooltip' = tipMagicReducer(tooltip, action)
  /\ queued' = IF action.type = "NONE" THEN queued ELSE queued + 1
  /\ queued' <= MaxQueued

\* Timer handles are opaque: the program only stores them and hands them back
\* to clearTimeout, which ignores a handle that is no longer pending.  States
\* that differ by a renaming of handles, or by a ref that holds a dead handle
\* where another holds null, behave alike; every step ends by renaming the
\* handles: 1 for the timer showTimeoutRef holds, 2 for the one hideTimeoutRef
\* holds, 3.. for the timers no ref holds (by remaining time).
Before(a, b) == a.left < b.left \/ (a.left = b.left /\ a.id < b.id)

RenameHandles(o) ==
  LET heldShow == {t \in o.timers : o.showRef # 0 /\ t.id = o.showRef}
      heldHide == {t \in o.timers : o.hideRef # 0 /\ t.id = o.hideRef}
      unheld == o.timers \ (heldShow \cup heldHide)
      rank(t) == Cardinality({u \in unheld : Before(u, t)})
  IN [o EXCEPT
        !.timers = {[t EXCEPT !.id = 1] : t \in heldShow}
                   \cup {[t EXCEPT !.id = 2] : t \in heldHide}
                   \cup {[t EXCEPT !.id = 3 + rank(t)] : t \in unheld},
        !.showRef = IF heldShow # {} THEN 1 ELSE 0,
        !.hideRef = IF heldHide # {} THEN 2 ELSE 0]

\* A handler of the engine has run with outcome o.
Apply(o) ==
  /\ Cardinality(HideTimers(o.timers)) <= MaxHideTimers
  /\ Dispatch(o.act)
  /\ LET r == RenameHandles(o)
     IN /\ timers' = r.timers
        /\ showTimeoutRef' = r.showRef
        /\ hideTimeoutRef' = r.hideRef
  /\ currentTargetRef' = o.cur

Present(e) == e # TooltipEl \/ TooltipRendered

\* The effect subscribes the handlers unless config.disabled is set.
listening == ~config.disabled

\* The pointer goes from element `from` to element `to` (NoElem: outside the
\* page).  The browser delivers mouseout on `from` and then mouseover on `to`
\* in one task.  A tooltip surface that was removed under the pointer sends
\* no mouseout.
PointerMove(from, to) ==
  /\ mounted
  /\ pointer = from
  /\ to # from
  /\ to = NoElem \/ Present(to)
  /\ LET left == IF listening /\ from # NoElem /\ Present(from)
                   THEN handleMouseOut(NoOutcome, from, to)
                   ELSE NoOutcome
     IN Apply(IF listening /\ to # NoElem THEN handleMouseOver(left, to) ELSE left)
  /\ pointer' = to
  /\ UNCHANGED <<rendered, mounted, focus, options, attrs, parsed, flow, tipOptions>>

\* Keyboard focus goes from target `from` to target `to` (NoElem: an element
\* that is no tooltip target): focusout on `from`, then focusin on `to`.
FocusMove(from, to) ==
  /\ mounted
  /\ focus = from
  /\ to # from
  /\ LET left == IF listening /\ from # NoElem
                   THEN handleFocusOut(NoOutcome, from, to)
                   ELSE NoOutcome
     IN Apply(IF listening /\ to # NoElem THEN handleFocusIn(left, to) ELSE left)
  /\ focus' = to
  /\ UNCHANGED <<rendered, mounted, pointer, options, attrs, parsed, flow, tipOptions>>

Keys == {"Escape", "Enter"}

KeyDown(key) ==
  /\ mounted
  /\ Apply(IF listening THEN handleKeyDown(NoOutcome, key) ELSE NoOutcome)
  /\ UNCHANGED <<rendered, mounted, pointer, focus, options, attrs, parsed, flow, tipOptions>>

\* A timer whose delay has elapsed runs its callback.
ShowTimerFire(t) ==
  /\ t.kind = "show" /\ t.left = 0
  /\ Apply(showTimerCallback(t))
  /\ UNCHANGED <<rendered, mounted, pointer, focus, options, attrs, parsed, flow, tipOptions>>

ShowMoveTimerFire(t) ==
  /\ t.kind = "showMove" /\ t.left = 0
  /\ Apply(showMoveTimerCallback(t))
  /\ UNCHANGED <<rendered, mounted, pointer, focus, options, attrs, parsed, flow, tipOptions>>

HideTimerFire(t) ==
  /\ t.kind = "hide" /\ t.left = 0
  /\ Apply(hideTimerCallback(t))
  /\ UNCHANGED <<rendered, mounted, pointer, focus, options, attrs, parsed, flow, tipOptions>>

\* 100 ms pass: no timer is overdue and React has flushed its scheduled render.
Tick ==
  /\ timers # {}
  /\ \A t \in timers : t.left > 0
  /\ queued = 0
  /\ timers' = {[t EXCEPT !.left = t.left - 1] : t \in timers}
  /\ UNCHANGED <<tooltip, rendered, queued, showTimeoutRef, hideTimeoutRef, currentTargetRef,
                 mounted, pointer, focus, options, attrs, parsed, flow, tipOptions>>

\* React re-renders the provider's consumers with the reduced state.
Render ==
  /\ queued > 0
  /\ rendered' = tooltip
  /\ queued' = 0
  /\ UNCHANGED <<tooltip, showTimeoutRef, hideTimeoutRef, currentTargetRef, timers,
                 mounted, pointer, focus, options, attrs, parsed, flow, tipOptions>>

\* Cleanup of the effect: listeners removed, clearTimeouts().
Teardown ==
  /\ mounted
  /\ mounted' = FALSE
  /\ Apply(IF listening THEN clearTimeouts(NoOutcome) ELSE NoOutcome)
  /\ UNCHANGED <<rendered, pointer, focus, options, attrs, parsed, flow, tipOptions>>

TooltipShow(element, contentOrOptions) ==
  /\ mounted
  /\ Dispatch(tooltipShow(element, contentOrOptions))
  /\ UNCHANGED <<rendered, showTimeoutRef, hideTimeoutRef, currentTargetRef, timers,
                 mounted, pointer, focus, options, attrs, parsed, flow, tipOptions>>

TooltipHide ==
  /\ mounted
  /\ Dispatch(tooltipHide)
  /\ UNCHANGED <<rendered, showTimeoutRef, hideTimeoutRef, currentTargetRef, timers,
                 mounted, pointer, focus, options, attrs, parsed, flow, tipOptions>>

TooltipUpdateContent(content) ==
  /\ mounted
  /\ Dispatch(tooltipUpdateContent(content))
  /\ UNCHANGED <<rendered, showTimeoutRef, hideTimeoutRef, currentTargetRef, timers,
                 mounted, pointer, focus, options, attrs, parsed, flow, tipOptions>>

\* The tooltip surface reports the end of a CSS transition.
TransitionEnd(propertyName, hasBeenPositioned) ==
  /\ mounted
  /\ TooltipRendered
  /\ Dispatch(handleTransitionEnd(propertyName, hasBeenPositioned))
  /\ UNCHANGED <<rendered, showTimeoutRef, hideTimeoutRef, currentTargetRef, timers,
                 mounted, pointer, focus, options, attrs, parsed, flow, tipOptions>>

\* The browser: pointer, keyboard, timers, the clock and React's renderer.
PointerNext ==
  \/ \E from, to \in Elements \cup {NoElem} : PointerMove(from, to)
  \/ \E key \in Keys : KeyDown(key)
  \/ \E t \in timers : ShowTimerFire(t)
  \/ \E t \in timers : ShowMoveTimerFire(t)
  \/ \E t \in timers : HideTimerFire(t)
  \/ Tick
  \/ Render
  \/ Teardown

FocusNext == \E from, to \in Targets \cup {NoElem} : FocusMove(from, to)

\* The application: useTipMagic().tooltip and the tooltip surface.
ApiNext ==
  \/ \E e \in Targets \cup {NoElem}, a \in ShowArgs : TooltipShow(e, a)
  \/ TooltipHide
  \/ \E c \in UpdateContents : TooltipUpdateContent(c)
  \/ \E p \in {"transform", "opacity"}, b \in BOOLEAN : TransitionEnd(p, b)

\* The event delegation engine under pointer, focus and keyboard events.
Next == PointerNext \/ FocusNext

Spec == Init /\ [][Next]_vars

\* The engine under pointer and keyboard events together with the
\* programmatic API.
NextApi == PointerNext \/ ApiNext

SpecApi == Init /\ [][NextApi]_vars

\* A page whose data-tip elements are the valid target A, the disabled D and
\* the empty E, under pointer, focus, keyboard and programmatic show and hide.
Candidates == {"A"} \cup Invalid

InvalidNext ==
  \/ \E from, to \in Candidates \cup {NoElem} : PointerMove(from, to)
  \/ \E from, to \in Candidates \cup {NoElem} : FocusMove(from, to)
  \/ \E key \in Keys : KeyDown(key)
  \/ \E t \in timers : ShowTimerFire(t)
  \/ \E t \in timers : ShowMoveTimerFire(t)
  \/ \E t \in timers : HideTimerFire(t)
  \/ Tick
  \/ Render
  \/ Teardown
  \/ \E e \in Candidates, a \in ShowArgs : TooltipShow(e, a)
  \/ TooltipHide

SpecInvalid == Init /\ [][InvalidNext]_vars

\* The provider mounted with disabled: true or with transitionBehavior: 'jump'.
InitOptions ==
  /\ tooltip = initialTooltipState
  /\ rendered = initialTooltipState
  /\ showTimeoutRef = 0
  /\ hideTimeoutRef = 0
  /\ currentTargetRef = NoElem
  /\ timers = {}
  /\ mounted = TRUE
  /\ pointer = NoElem
  /\ focus = NoElem
  /\ queued = 0
  /\ options \in {disabledOptions, jumpOptions}
  /\ attrs = NoAttrs
  /\ parsed = Undefined
  /\ flow = initialFlowState
  /\ tipOptions = NoOptions

SpecOptions == InitOptions /\ [][NextApi]_vars

\* ------------------------------------------------------------- scheduling
\* The browser runs a timer callback once its delay has elapsed, the clock
\* goes on and React performs every render it has scheduled.
TimerFire ==
  \E t \in timers : ShowTimerFire(t) \/ ShowMoveTimerFire(t) \/ HideTimerFire(t)

Fairness == WF_vars(Tick) /\ WF_vars(Render) /\ WF_vars(TimerFire)

\* The engine under pointer and keyboard events, timers and renders running
\* as scheduled.
SpecLive == Init /\ [][PointerNext]_vars /\ Fairness

\* The pointer comes to rest on target Rest: until it gets there the user
\* moves the pointer, presses keys and the application calls hide(); once it
\* is there no further event occurs, only timers and renders run.
Rest == "A"

RestNext ==
  \/ \E from, to \in Elements \cup {NoElem} : from # Rest /\ PointerMove(from, to)
  \/ \E key \in Keys : pointer # Rest /\ KeyDown(key)
  \/ pointer # Rest /\ TooltipHide
  \/ \E t \in timers : ShowTimerFire(t)
  \/ \E t \in timers : ShowMoveTimerFire(t)
  \/ \E t \in timers : HideTimerFire(t)
  \/ Tick
  \/ Render

SpecRest == Init /\ [][RestNext]_vars /\ Fairness

\* ------------------------------------------------------- the parser alone
\* Attribute text a page author may write: numbers with and without sign,
\* blanks, trailing letters, no digit at all, the empty string.
NumTexts ==
  {Undefined, Some(<<>>), Some(<<"0">>), Some(<<"5">>), Some(<<"-", "3">>),
   Some(<<"+", "4">>), Some(<<" ", "7">>), Some(<<"1", "2", "x">>),
   Some(<<"a">>), Some(<<"-">>)}
FlagTexts == {Undefined, Some(""), Some("false"), Some("true")}
PlacementTexts ==
  {Undefined, Some(""), Some("bogus"), Some("TOP"), Some("center")}
    \cup {Some(v) : v \in VALID_PLACEMENTS}
IntKeys == {"tipDelay", "tipHideDelay", "tipMaxLines", "tipMaxWidth", "tipMoveDuration"}
FlagKeys == {"tipDisabled", "tipEllipsis", "tipWordWrap", "tipHtml", "tipInteractive",
             "tipNoArrow"}

AttributeBags ==
  {[NoAttrs EXCEPT ![k] = v] : k \in IntKeys, v \in NumTexts}
    \cup {[NoAttrs EXCEPT !.tipDelay = d, !.tipMaxLines = l] : d, l \in NumTexts}
    \cup {[NoAttrs EXCEPT ![k] = v] : k \in FlagKeys, v \in FlagTexts}
    \cup {[NoAttrs EXCEPT !.tipDisabled = f[1], !.tipEllipsis = f[2],
                          !.tipWordWrap = f[3], !.tipHtml = f[4],
                          !.tipInteractive = f[5], !.tipNoArrow = f[6]] :
            f \in [1..6 -> {Undefined, Some("")}]}
    \cup {[NoAttrs EXCEPT !.tipMove = m, !.tipJump = j] : m, j \in FlagTexts}
    \cup {[NoAttrs EXCEPT !.tipPlacement = v] : v \in PlacementTexts}
    \cup {[NoAttrs EXCEPT !.tip = c, !.tipGroup = g] :
            c \in {Undefined, Some(""), Some("a")},
            g \in {Undefined, Some(""), Some("g1")}}

InitParser ==
  /\ tooltip = initialTooltipState
  /\ rendered = initialTooltipState
  /\ showTimeoutRef = 0
  /\ hideTimeoutRef = 0
  /\ currentTargetRef = NoElem
  /\ timers = {}
  /\ mounted = TRUE
  /\ pointer = NoElem
  /\ focus = NoElem
  /\ queued = 0
  /\ options = providerOptions
  /\ attrs \in AttributeBags
  /\ parsed = Undefined
  /\ flow = initialFlowState
  /\ tipOptions = NoOptions

\* parseDataAttributes(element) for the element Probe.
ParseProbe ==
  /\ parsed = Undefined
  /\ parsed' = Some(parseDataAttributes(Probe))
  /\ UNCHANGED <<tooltip, rendered, showTimeoutRef, hideTimeoutRef, currentTargetRef,
                 timers, mounted, pointer, focus, queued, options, attrs, flow, tipOptions>>

SpecParser == InitParser /\ [][ParseProbe]_vars

\* --------------------------------------------- getTipProps and the parser
\* Options objects an application may hand to getTipProps.
OptionNumbers == {0, 1, 5, 0 - 3, 12, 200, 1050}
NumberOptions == {"showDelay", "hideDelay", "maxLines", "maxWidth", "moveTransitionDuration"}
BooleanOptions == {"disabled", "ellipsis", "wordWrap", "html", "interactive", "showArrow"}

TipOptions ==
  {[NoOptions EXCEPT ![k] = Some(n)] : k \in NumberOptions, n \in OptionNumbers}
    \cup {[NoOptions EXCEPT !.showDelay = Some(n), !.hideDelay = Some(m)] :
            n, m \in OptionNumbers}
    \cup {[NoOptions EXCEPT ![k] = Some(b)] : k \in BooleanOptions, b \in BOOLEAN}
    \cup {[NoOptions EXCEPT !.disabled = f[1], !.ellipsis = f[2], !.wordWrap = f[3],
                            !.html = f[4], !.interactive = f[5], !.showArrow = f[6]] :
            f \in [1..6 -> {Undefined, Some(TRUE)}]}
    \cup {[NoOptions EXCEPT !.placement = Some(v)] : v \in VALID_PLACEMENTS}
    \cup {[NoOptions EXCEPT !.textBreak = Some(v)] : v \in VALID_TEXT_BREAKS}
    \cup {[NoOptions EXCEPT !.transitionBehavior = Some(v)] : v \in {"move", "jump"}}
    \cup {[NoOptions EXCEPT !.tip = c, !.id = i] :
            c \in {"", "a", "b"}, i \in {Undefined, Some(""), Some("x")}}

InitTipProps ==
  /\ tooltip = initialTooltipState
  /\ rendered = initialTooltipState
  /\ showTimeoutRef = 0
  /\ hideTimeoutRef = 0
  /\ currentTargetRef = NoElem
  /\ timers = {}
  /\ mounted = TRUE
  /\ pointer = NoElem
  /\ focus = NoElem
  /\ queued = 0
  /\ options = providerOptions
  /\ attrs = NoAttrs
  /\ parsed = Undefined
  /\ flow = initialFlowState
  /\ tipOptions \in TipOptions

\* <Probe {...getTipProps(options)} />: the element gets the attributes.
SpreadTipProps ==
  /\ attrs = NoAttrs
  /\ attrs' = getTipProps(tipOptions)
  /\ parsed' = Undefined
  /\ UNCHANGED <<tooltip, rendered, showTimeoutRef, hideTimeoutRef, currentTargetRef,
                 timers, mounted, pointer, focus, queued, options, flow, tipOptions>>

SpecTipProps == InitTipProps /\ [][SpreadTipProps \/ ParseProbe]_vars

\* --------------------------------------------------------- the flow alone
\* Most steps of a flow.
MaxSteps == 3
StepIds == {"s1", "s2", "s3"}
StepLists == UNION {[1..n -> StepIds] : n \in 0..MaxSteps}

\* helper.startFlow(steps), helper.nextStep() and helper.endFlow() of useTipMagic.
HelperStartFlow(steps) ==
  /\ flow' = flowReducer(flow, StartFlowAction(steps))
  /\ UNCHANGED <<tooltip, rendered, showTimeoutRef, hideTimeoutRef, currentTargetRef,
                 timers, mounted, pointer, focus, queued, options, attrs, parsed, tipOptions>>

HelperNextStep ==
  /\ flow' = flowReducer(flow, NextFlowStepAction)
  /\ UNCHANGED <<tooltip, rendered, showTimeoutRef, hideTimeoutRef, currentTargetRef,
                 timers, mounted, pointer, focus, queued, options, attrs, parsed, tipOptions>>

HelperEndFlow ==
  /\ flow' = flowReducer(flow, EndFlowAction)
  /\ UNCHANGED <<tooltip, rendered, showTimeoutRef, hideTimeoutRef, currentTargetRef,
                 timers, mounted, pointer, focus, queued, options, attrs, parsed, tipOptions>>

\* dispatch({ type: 'PREV_FLOW_STEP' }) through the context.
PrevFlowStep ==
  /\ flow' = flowReducer(flow, PrevFlowStepAction)
  /\ UNCHANGED <<tooltip, rendered, showTimeoutRef, hideTimeoutRef, currentTargetRef,
                 timers, mounted, pointer, focus, queued, options, attrs, parsed, tipOptions>>

FlowNext ==
  \/ \E steps \in StepLists : HelperStartFlow(steps)
  \/ HelperNextStep
  \/ PrevFlowStep
  \/ HelperEndFlow

SpecFlow == Init /\ [][FlowNext]_vars

\* ------------------------------------------------------------------- claims
delayOf(t) == parseDataAttributes(t).delay
\* The tooltip is on screen for target a and the engine knows it.
ShownOn(a) ==
  /\ tooltip.visible /\ tooltip.target = a
  /\ rendered = tooltip
  /\ currentTargetRef = a

\* C1: in every reachable state at most one show timer and at most one hide
\* timer are pending.
C1_ExclusiveTimers ==
  /\ Cardinality(ShowTimers(timers)) <= 1
  /\ Cardinality(HideTimers(timers)) <= 1

\* C2: once the effect has been cleaned up no timer is left pending, so no
\* callback can fire and dispatch afterwards.
C2_TeardownCancelsAll == ~mounted => timers = {}

\* C3: Escape pressed while the tooltip is visible leaves, in that step, the
\* tooltip hidden and no timer pending.
C3_EscapeHidesAndClears ==
  [][(KeyDown("Escape") /\ tooltip.visible /\ isVisibleRef)
       => (~tooltip'.visible /\ timers' = {})]_vars

\* C4: a hidden tooltip has no target, no descriptor and is not transitioning.
C4_HiddenIsEmpty ==
  ~tooltip.visible =>
    (tooltip.target = NoElem /\ tooltip.parsedData = Undefined /\ ~tooltip.isTransitioning)

Elsewhere == {BodyEl, NoElem}

C6_ShowTimerCancelsHide ==
  [][\A t \in timers :
       (ShowMoveTimerFire(t) /\ tooltip.visible /\ isVisibleRef
          /\ currentTargetRef = tooltip.target /\ tooltip.target # t.target
          /\ HideTimers(timers) # {})
         => /\ tooltip'.visible /\ tooltip'.target = t.target /\ tooltip'.isTransitioning
            /\ HideTimers(timers') = {}]_vars

\* C7: entering a target with show delay 0 while the tooltip is visible for
\* another target engages it in the handler and leaves no hide timer pending.
C7_ZeroDelayFastPath ==
  [][\A from \in Elements \cup {NoElem}, b \in Targets :
       (PointerMove(from, b) /\ delayOf(b) = 0 /\ tooltip.visible /\ isVisibleRef
          /\ currentTargetRef = tooltip.target /\ tooltip.target # b)
         => /\ tooltip'.visible /\ tooltip'.target = b
            /\ HideTimers(timers') = {}]_vars

\* C8: when the pointer goes from target a to target b while the tooltip is
\* hidden and a's show timer is pending, a's timer is cancelled and b is
\* engaged with b's own show delay.
C8_RapidHoverRetargets ==
  [][\A a, b \in Targets :
       (PointerMove(a, b) /\ ~tooltip.visible /\ ~isVisibleRef
          /\ \E sh \in ShowTimers(timers) : sh.target = a)
         => /\ \A sh \in ShowTimers(timers') : sh.target # a
            /\ IF delayOf(b) = 0 THEN tooltip'.visible /\ tooltip'.target = b
               ELSE \E sh \in ShowTimers(timers') : sh.target = b /\ sh.left = delayOf(b)]_vars

\* C9: a hide timer armed by a pointer leave or a focus-out runs for the
\* hide-delay override of the descriptor on screen if it has one and for the
\* provider's hideDelay otherwise.
ShownHideDelay ==
  IF rendered.visible /\ rendered.parsedData # Undefined
       /\ Val(rendered.parsedData).hideDelay # Undefined
    THEN Val(Val(rendered.parsedData).hideDelay)
    ELSE config.hideDelay

C9_HideDelayOfShownDescriptor ==
  [][((\E from, to \in Elements \cup {NoElem} : PointerMove(from, to))
        \/ (\E from, to \in Targets \cup {NoElem} : FocusMove(from, to)))
       => \A h \in HideTimers(timers') :
            (h.id = hideTimeoutRef'
               /\ (h \notin timers
                     \/ Cardinality(HideTimers(timers')) > Cardinality(HideTimers(timers))))
              => h.left = ShownHideDelay]_vars

\* C10: a mouseout whose related target is the tooltip, the helper or a
\* data-tip element arms no hide timer, whatever is left and in whatever state.
Suppressing == Targets \cup {TooltipEl, HelperEl}

C10_SuppressedLeaveArmsNoHide ==
  \A e \in Elements, r \in Suppressing :
    e # r => HideTimers(handleMouseOut(NoOutcome, e, r).timers) \subseteq HideTimers(timers)

\* The pointer went from the shown target onto the tooltip surface and no
\* hide timer is pending, although a leave to the page body would arm one.
C10_Witness ==
  /\ pointer = TooltipEl /\ tooltip.visible /\ rendered = tooltip
  /\ HideTimers(timers) = {}
  /\ HideTimers(handleMouseOut(NoOutcome, TooltipEl, BodyEl).timers) # {}

\* C11: once the pointer has left an element for the tooltip, the helper or a
\* data-tip element, no hide timer is pending.
C11_SuppressedLeaveCancelsHide ==
  [][\A e \in Elements, r \in Suppressing :
       (PointerMove(e, r) /\ Present(e)) => HideTimers(timers') = {}]_vars

\* C12: in every reachable state focus-in on a target leaves the timers, the
\* refs and the dispatched action that pointer-enter on it leaves, and
\* focus-out of a target to a place that is no target leaves what
\* pointer-leave of it leaves.
C12_FocusMatchesPointer ==
  \A t \in Targets :
    /\ handleFocusIn(NoOutcome, t) = handleMouseOver(NoOutcome, t)
    /\ handleFocusOut(NoOutcome, t, NoElem) = handleMouseOut(NoOutcome, t, NoElem)

\* C13: a step that disengages (a hide timer firing, Escape taken while the
\* tooltip is visible, or tooltip.hide()) leaves the tooltip state hidden with
\* no target, no descriptor, empty content and isTransitioning false.
C13_DisengageResetsAll ==
  [][((\E t \in timers : HideTimerFire(t))
        \/ (KeyDown("Escape") /\ isVisibleRef)
        \/ TooltipHide)
       => /\ ~tooltip'.visible
          /\ tooltip'.target = NoElem
          /\ tooltip'.parsedData = Undefined
          /\ tooltip'.content = ""
          /\ ~tooltip'.isTransitioning]_vars

\* A disengage has just been applied to a tooltip that the last render shows
\* visible and in the middle of a move.
C13_Witness ==
  /\ rendered.visible /\ rendered.isTransitioning /\ rendered.target # NoElem
  /\ queued > 0
  /\ ~tooltip.visible /\ tooltip.target = NoElem /\ tooltip.content = ""

\* C14: engaging, by pointer, focus or tooltip.show(), the target the visible
\* tooltip is shown for does not set isTransitioning.
C14_ReengageKeepsSettled ==
  [][\A b \in Targets :
       (/\ tooltip.visible /\ tooltip.target = b /\ ~tooltip.isTransitioning
        /\ rendered = tooltip
        /\ \/ \E from \in Elements \cup {NoElem} : PointerMove(from, b)
           \/ \E from \in Targets \cup {NoElem} : FocusMove(from, b)
           \/ \E a \in ShowArgs : TooltipShow(b, a))
         => ~tooltip'.isTransitioning]_vars

\* C15: a step that engages a candidate whose descriptor is disabled or has
\* empty content (pointer enter, focus-in, its show timer firing, or
\* tooltip.show()) leaves the tooltip state unchanged.
C15_InvalidCandidateIgnored ==
  [][\A d \in Invalid :
       (\/ \E from \in Candidates \cup {NoElem} : PointerMove(from, d)
        \/ \E from \in Candidates \cup {NoElem} : FocusMove(from, d)
        \/ \E t \in timers : t.target = d /\ (ShowTimerFire(t) \/ ShowMoveTimerFire(t))
        \/ \E a \in ShowArgs : TooltipShow(d, a))
         => tooltip' = tooltip]_vars

\* C16: while the provider's disabled flag is set the tooltip is not visible.
C16_DisabledNeverVisible == config.disabled => ~tooltip.visible

\* C17: tooltip.show() with a selector that resolves to no element dispatches
\* nothing: the reducer is handed no action and the tooltip state stays as it is.
C17_UnresolvedShowIsNoOp ==
  \A a \in ShowArgs :
    /\ tooltipShow(NoElem, a).type = "NONE"
    /\ tipMagicReducer(tooltip, tooltipShow(NoElem, a)) = tooltip

\* A state in which an unresolved show() has something to disturb: the
\* tooltip is visible and timers are pending.
C17_Witness ==
  /\ mounted /\ tooltip.visible /\ rendered = tooltip
  /\ ShowTimers(timers) # {} /\ HideTimers(timers) # {}

\* data-tip-group of a target, and the compatibility rule of the groups: both
\* absent, equal, or exactly one absent.
groupOf(t) == dataset[t].tipGroup
Compatible(g, h) == g = Undefined \/ h = Undefined \/ g = h

\* C18: when a render shows the tooltip moved from target a to target b with
\* nominal behavior 'move', the position is animated exactly when the groups
\* of a and b are compatible.
C18_GroupsDecideMove ==
  [][(/\ Render
      /\ rendered.visible /\ rendered'.visible /\ rendered'.isTransitioning
      /\ rendered.target \in Targets /\ rendered'.target \in Targets
      /\ rendered.target # rendered'.target
      /\ transitionBehavior' = "move")
       => (shouldAnimatePosition(TRUE)'
             <=> Compatible(groupOf(rendered.target), groupOf(rendered'.target)))]_vars

\* C19: while the nominal behavior is 'jump' the position is not animated,
\* whatever the groups of the previous and the current target.
C19_JumpStaysJump ==
  transitionBehavior = "jump" => \A h \in BOOLEAN : ~shouldAnimatePosition(h)

\* The provider defaults to 'jump' and the tooltip has moved to B (group g2,
\* no override of its own).
C19_Witness ==
  /\ config.transitionBehavior = "jump"
  /\ rendered.visible /\ rendered.isTransitioning /\ rendered.target = "B"
  /\ transitionBehavior = "jump"

\* C20: the nominal behavior of the tooltip on screen is the move/jump flag of
\* its target when the target carries one and the provider's transitionBehavior
\* otherwise; under a provider default of 'jump' a target without a flag is
\* not animated.
flagOf(t) ==
  IF dataset[t].tipMove # Undefined THEN "move"
  ELSE IF dataset[t].tipJump # Undefined THEN "jump"
  ELSE "none"

C21_MoveRecordsPreviousGroup ==
  [][\A a, b \in Targets :
       (a # b /\ ShownOn(a) /\ tooltip'.target = b)
         => /\ tooltip'.visible
            /\ tooltip'.parsedData = Some(parseDataAttributes(b))
            /\ tooltip'.isTransitioning
            /\ Prop(tooltip', "previousGroup") = groupOf(a)]_vars

\* C22: the descriptor of an element has the element's data-tip-group as its
\* group, and no group when the attribute is missing.
C22_GroupCopied ==
  parsed # Undefined => Prop(Val(parsed), "group") = attrs.tipGroup

\* C23: each boolean field of the descriptor is true exactly when its
\* attribute is written on the element, whatever its text; showArrow is true
\* exactly when data-tip-no-arrow is not written.
Written(v) == v \in {Some(""), Some("false"), Some("true")}

C23_FlagsByPresence ==
  parsed # Undefined =>
    LET d == Val(parsed)
    IN /\ d.disabled <=> Written(attrs.tipDisabled)
       /\ d.ellipsis <=> Written(attrs.tipEllipsis)
       /\ d.wordWrap <=> Written(attrs.tipWordWrap)
       /\ d.html <=> Written(attrs.tipHtml)
       /\ d.interactive <=> Written(attrs.tipInteractive)
       /\ d.showArrow <=> ~Written(attrs.tipNoArrow)

\* data-tip-disabled="false" was parsed: the element is disabled all the same.
C23_Witness ==
  /\ parsed # Undefined
  /\ attrs.tipDisabled = Some("false")
  /\ Val(parsed).disabled

\* C24: the descriptor's transition override is 'move' whenever data-tip-move
\* is written, data-tip-jump or not; 'jump' when only data-tip-jump is
\* written; absent when neither is.
C24_MoveWinsOverJump ==
  parsed # Undefined =>
    LET tb == Val(parsed).transitionBehavior
    IN /\ Written(attrs.tipMove) => tb = Some("move")
       /\ (~Written(attrs.tipMove) /\ Written(attrs.tipJump)) => tb = Some("jump")
       /\ (~Written(attrs.tipMove) /\ ~Written(attrs.tipJump)) => tb = Undefined

\* Both flags were written and the descriptor says 'move'.
C24_Witness ==
  /\ parsed # Undefined
  /\ Written(attrs.tipMove) /\ Written(attrs.tipJump)
  /\ Val(parsed).transitionBehavior = Some("move")

\* C25: an integer attribute that is missing or holds no number falls back:
\* to the default for the show delay, the line limit (1) and the width limit
\* (300), to `absent` for the hide delay and the move duration; a text that
\* starts with a number gives that number.
NoNumber == {Undefined, Some(<<>>), Some(<<"a">>), Some(<<"-">>)}

NumberOf(v) ==
  CASE v = Some(<<"0">>) -> 0
    [] v = Some(<<"5">>) -> 5
    [] v = Some(<<"-", "3">>) -> 0 - 3
    [] v = Some(<<"+", "4">>) -> 4
    [] v = Some(<<" ", "7">>) -> 7
    [] v = Some(<<"1", "2", "x">>) -> 12

C25_IntegerFallbacks ==
  parsed # Undefined =>
    LET d == Val(parsed)
        withDefault(v, def) == IF v \in NoNumber THEN def ELSE NumberOf(v)
        optional(v) == IF v \in NoNumber THEN Undefined ELSE Some(NumberOf(v))
    IN /\ d.delay = withDefault(attrs.tipDelay, DEFAULT_OPTIONS.showDelay)
       /\ d.maxLines = withDefault(attrs.tipMaxLines, 1)
       /\ d.maxWidth = withDefault(attrs.tipMaxWidth, 300)
       /\ d.hideDelay = optional(attrs.tipHideDelay)
       /\ d.moveTransitionDuration = optional(attrs.tipMoveDuration)

\* data-tip-hide-delay="a" was parsed: the descriptor has no hide delay.
C25_Witness ==
  /\ parsed # Undefined
  /\ attrs.tipHideDelay = Some(<<"a">>)
  /\ Val(parsed).hideDelay = Undefined

\* C26: the tooltip of a target without a recognised data-tip-placement is
\* placed at the provider's configured placement.
C26_FallbackIsProviderPlacement ==
  (/\ rendered.visible /\ rendered.target \in Targets
   /\ rendered.parsedData # Undefined
   /\ (dataset[rendered.target].tipPlacement = Undefined
         \/ Val(dataset[rendered.target].tipPlacement) \notin VALID_PLACEMENTS))
    => placement = config.placement

\* C27: every descriptor has a show delay of at least 0 and a line limit of at
\* least 1.
C27_DescriptorRanges ==
  parsed # Undefined =>
    /\ Val(parsed).delay >= 0
    /\ Val(parsed).maxLines >= 1

\* C28: entering a target without data-tip-delay arms the show timer with the
\* provider's configured showDelay.
C28_DefaultDelayIsProviderShowDelay ==
  [][\A from \in Elsewhere, b \in Targets :
       (/\ PointerMove(from, b) /\ listening
        /\ b # currentTargetRef
        /\ dataset[b].tipDelay = Undefined)
         => \E sh \in ShowTimers(timers') :
              sh.id = showTimeoutRef' /\ sh.target = b /\ sh.left = config.showDelay]_vars

\* C29: an active flow has 0 <= currentIndex <= steps.length - 1; an inactive
\* flow has currentIndex -1 and no steps.
C29_FlowConsistent ==
  /\ flow.active => (0 <= flow.currentIndex /\ flow.currentIndex <= Len(flow.steps) - 1)
  /\ ~flow.active => (flow.currentIndex = 0 - 1 /\ flow.steps = <<>>)

\* C30: a mouseover on a new target with a non-zero show delay while the
\* tooltip is visible arms the show timer of that target and leaves every
\* pending hide timer, and the ref that holds it, as they were.
C30_EnterKeepsHideTimer ==
  \A b \in Targets :
    (isVisibleRef /\ b # currentTargetRef /\ delayOf(b) > 0 /\ HideTimers(timers) # {})
      => LET o == handleMouseOver(NoOutcome, b)
         IN /\ HideTimers(o.timers) = HideTimers(timers)
            /\ o.hideRef = hideTimeoutRef
            /\ \E sh \in ShowTimers(o.timers) :
                 sh.id = o.showRef /\ sh.target = b /\ sh.left = delayOf(b)

\* The pointer is on A, whose show timer is pending, while the tooltip is
\* still on screen for B and the hide timer armed on leaving B is pending too.
C30_Witness ==
  /\ isVisibleRef /\ tooltip.visible /\ tooltip.target = "B"
  /\ pointer = "A"
  /\ \E sh \in timers : sh.kind = "showMove" /\ sh.target = "A" /\ sh.id = showTimeoutRef
  /\ \E h \in timers : h.kind = "hide" /\ h.id = hideTimeoutRef

\* C33: while the tooltip is visible with isTransitioning set, no engagement
\* (a programmatic show, a pointer entering a target, focus moving onto a
\* target) clears isTransitioning and leaves the tooltip visible; only the
\* transition end signal and a hide do.
C33_OnlySettleClearsTransitioning ==
  (tooltip.visible /\ tooltip.isTransitioning) =>
    LET kept(act) == LET s == tipMagicReducer(tooltip, act)
                     IN s.visible => s.isTransitioning
    IN /\ \A e \in Targets, a \in ShowArgs : kept(tooltipShow(e, a))
       /\ \A e \in Targets : kept(handleMouseOver(NoOutcome, e).act)
       /\ \A e \in Targets : kept(handleFocusIn(NoOutcome, e).act)

\* C34: when the pointer leaves target T while T's show timer is pending and
\* goes to anything that is not a tooltip target, no show timer for T stays
\* pending.
NonTargets == {TooltipEl, HelperEl, BodyEl, NoElem}

C34_LeaveCancelsShowTimer ==
  [][\A t \in Targets, to \in NonTargets :
       (/\ PointerMove(t, to) /\ listening
        /\ \E sh \in ShowTimers(timers) : sh.target = t /\ sh.id = showTimeoutRef)
         => ~ \E sh \in ShowTimers(timers') : sh.target = t]_vars

\* C35: a step that gives a hidden tooltip a new target makes it visible:
\* the reducer never applies MOVE_TOOLTIP to a hidden tooltip.
C35_EngageAfterHideShows ==
  [][\A b \in Targets :
       (~tooltip.visible /\ tooltip.target # b /\ tooltip'.target = b)
         => (tooltip'.visible /\ ~tooltip'.isTransitioning)]_vars

\* C36: between events currentTargetRef is null when the tooltip is hidden
\* and is tooltip.target when the tooltip is visible.
C36_RefAgreesWithState ==
  /\ ~tooltip.visible => currentTargetRef = NoElem
  /\ tooltip.visible => currentTargetRef = tooltip.target

\* C37: when the pointer comes back onto the shown target A from a place that
\* is no target while the hide timer armed on leaving A is pending, that timer
\* is cancelled and the tooltip stays visible.
C37_ReenterCancelsHide ==
  [][\A a \in Targets, from \in Elsewhere :
       (/\ PointerMove(from, a) /\ listening
        /\ ShownOn(a)
        /\ HideTimers(timers) # {})
         => (HideTimers(timers') = {} /\ tooltip'.visible)]_vars

C39_TipPropsRoundTrip ==
  (parsed # Undefined /\ attrs # NoAttrs) =>
    LET d == Val(parsed)
        o == tipOptions
        given(name) == o[name] = Some(TRUE)
    IN /\ d.content = o.tip
       /\ d.id = o.id
       /\ d.placement = Coalesce(o.placement, "top")
       /\ d.delay = Coalesce(o.showDelay, DEFAULT_OPTIONS.showDelay)
       /\ d.hideDelay = o.hideDelay
       /\ d.disabled = given("disabled")
       /\ d.ellipsis = given("ellipsis")
       /\ d.maxLines = Coalesce(o.maxLines, 1)
       /\ d.wordWrap = given("wordWrap")
       /\ d.textBreak = Coalesce(o.textBreak, "normal")
       /\ d.maxWidth = Coalesce(o.maxWidth, 300)
       /\ d.html = given("html")
       /\ d.interactive = given("interactive")
       /\ d.transitionBehavior = o.transitionBehavior
       /\ d.moveTransitionDuration = o.moveTransitionDuration
       /\ d.showArrow = (o.showArrow # Some(FALSE))

\* The options { tip: 'a', showDelay: -3, hideDelay: 1050 } went through
\* getTipProps and the parser and came back.
C39_Witness ==
  /\ parsed # Undefined /\ attrs # NoAttrs
  /\ tipOptions.showDelay = Some(0 - 3) /\ tipOptions.hideDelay = Some(1050)
  /\ attrs.tipDelay = Some(<<"-", "3">>)
  /\ Val(parsed).delay = 0 - 3 /\ Val(parsed).hideDelay = Some(1050)

C32_RestingPointerShows ==
  <>(pointer = Rest) => <>(pointer = Rest /\ tooltip.visible /\ tooltip.target = Rest)

====
